---- MODULE Spec2Model ----
(***************************************************************************)
(* Model of yee-utils' key custody (modules/base.rs, modules/key.rs) and   *)
(* transaction composition (modules/tx.rs).                                *)
(*                                                                         *)
(* Text is a sequence of one-character strings, a byte is a number in      *)
(* 0..255, a byte string is a sequence of bytes.  Every fallible function  *)
(* returns a record [ok, val, err], err being the String the code returns. *)
(***************************************************************************)
EXTENDS Integers, Sequences, FiniteSets, TLC

\* ------------------------------------------------------------------------
\* Bounds of the model
\* ------------------------------------------------------------------------
MaxStrLen == 5
MaxBytesLen == 3
MaxSecretLen == 2

\* yee_signer::SECRET_KEY_LEN is 64; the model scales the key to two bytes.
SECRET_KEY_LEN == 2

VARIABLES
    keystream,  \* password -> the AES-256-CTR keystream password_to_key yields
    hexIn,      \* the text given to Hex::from_str
    hexBytes,   \* the bytes given to Hex's Into<String>
    hexRes,     \* what the last Hex operation returned
    files,      \* the file system: path -> file
    saved,      \* path -> the (secret, password) the file was saved from
    ret,        \* the last keystore operation and what it returned
    rpcReply,   \* the node's answer given to get_nonce on its own
    nonceRes,   \* what get_nonce on its own returned
    args,       \* compose: the command line (PERIOD, NONCE, CALL, KEYSTORE_PATH)
    pc,         \* compose: the step to run next
    loc,        \* compose: the local variables bound so far
    trace,      \* compose: the steps run so far, each with its outcome
    inflight,   \* compose: the RPC requests sent and not yet answered
    result      \* compose: what the command returned

hexVars == <<hexIn, hexBytes, hexRes>>
ksVars == <<files, saved, ret>>
nonceVars == <<rpcReply, nonceRes>>
composeVars == <<args, pc, loc, trace, inflight, result>>
vars == <<keystream, hexIn, hexBytes, hexRes, files, saved, ret, rpcReply, nonceRes,
          args, pc, loc, trace, inflight, result>>

Ok(v) == [ok |-> TRUE, val |-> v, err |-> ""]
Err(e) == [ok |-> FALSE, val |-> <<>>, err |-> e]

RECURSIVE SeqsUpTo(_, _)
SeqsUpTo(S, n) ==
    IF n = 0 THEN {<<>>}
    ELSE LET shorter == SeqsUpTo(S, n - 1)
         IN shorter \cup {Append(s, x) : s \in {t \in shorter : Len(t) = n - 1}, x \in S}

\* ------------------------------------------------------------------------
\* Hex codec (base.rs Hex, and the hex crate it calls)
\* ------------------------------------------------------------------------
LowerHex == <<"0", "1", "2", "3", "4", "5", "6", "7", "8", "9", "a", "b", "c", "d", "e", "f">>
UpperHex == <<"0", "1", "2", "3", "4", "5", "6", "7", "8", "9", "A", "B", "C", "D", "E", "F">>

\* hex crate, val(): the value of a hex digit of either case, -1 for any other char
HexVal(c) ==
    IF \E i \in 1..16 : LowerHex[i] = c THEN (CHOOSE i \in 1..16 : LowerHex[i] = c) - 1
    ELSE IF \E i \in 1..16 : UpperHex[i] = c THEN (CHOOSE i \in 1..16 : UpperHex[i] = c) - 1
    ELSE -1

\* hex::decode: odd length and non-hex characters are errors
HexDecode(s) ==
    IF Len(s) % 2 # 0 THEN Err("OddLength")
    ELSE IF \E i \in 1..Len(s) : HexVal(s[i]) = -1 THEN Err("InvalidHexCharacter")
    ELSE Ok([i \in 1..(Len(s) \div 2) |-> HexVal(s[2 * i - 1]) * 16 + HexVal(s[2 * i])])

\* hex::encode: two lowercase digits per byte, high nibble first
HexEncode(b) ==
    [i \in 1..(2 * Len(b)) |->
        IF i % 2 = 1 THEN LowerHex[(b[(i + 1) \div 2] \div 16) + 1]
        ELSE LowerHex[(b[i \div 2] % 16) + 1]]

IsPrefix(p, s) == Len(p) <= Len(s) /\ SubSeq(s, 1, Len(p)) = p

\* a plausible slip: trim_start_matches(&['0', 'x'][..]) strips leading chars
RECURSIVE TrimStartChars(_, _)
TrimStartChars(s, pat) ==
    IF Len(s) > 0 /\ \E i \in 1..Len(pat) : pat[i] = s[1]
    THEN TrimStartChars(Tail(s), pat)
    ELSE s

\* str::trim_start_matches(pat): removes every repetition of pat at the start
RECURSIVE TrimStartMatches(_, _)
TrimStartMatches(s, pat) ==
    IF Len(pat) > 0 /\ IsPrefix(pat, s)
    THEN TrimStartMatches(SubSeq(s, Len(pat) + 1, Len(s)), pat)
    ELSE s

Prefix0x == <<"0", "x">>

\* impl FromStr for Hex
FromStr(s) ==
    LET r == HexDecode(TrimStartMatches(s, Prefix0x))
    IN IF r.ok THEN Ok(r.val) ELSE Err("Invalid hex")

\* a plausible slip: hex digits written without zero padding ("{:x}" per byte)
HexToStringNoPad(b) ==
    Prefix0x \o [i \in 1..Len(b) |-> LowerHex[(b[i] % 16) + 1]]

\* impl Into<String> for Hex, impl Serialize for Hex
HexToString(b) == Prefix0x \o HexEncode(b)

\* ------------------------------------------------------------------------
\* Keystore cipher (base.rs aes_enc, aes_dec, password_to_key)
\* ------------------------------------------------------------------------
Passwords == {"p", "q"}
KsBytes == {90, 165}
SecretBytes == {0, 85}
Secrets == SeqsUpTo(SecretBytes, MaxSecretLen)

RECURSIVE BitXor(_, _)
BitXor(a, b) ==
    IF a = 0 THEN b
    ELSE IF b = 0 THEN a
    ELSE (((a % 2) + (b % 2)) % 2) + 2 * BitXor(a \div 2, b \div 2)

\* password_to_key + ctr(KEY_SIZE, key, iv): the keystream is a function of
\* the password alone (fixed salt, fixed iteration count)
KeyStream(password) == keystream[password]

\* a plausible slip: the cipher ignores the derived key
AesCtrNoKey(data, password) == Ok(data)

\* AES-CTR: output byte i is input byte i xor keystream byte i
AesCtr(data, password) ==
    Ok([i \in 1..Len(data) |-> BitXor(data[i], KeyStream(password)[i])])

aes_enc(plain, password) == AesCtr(plain, password)
aes_dec(cipher, password) == AesCtr(cipher, password)

\* ------------------------------------------------------------------------
\* Files and the keystore container (base.rs KeyStore, put_to_file, get_from_file)
\* ------------------------------------------------------------------------
Paths == {"keystore.dat"}
Modes == {"rw", "ro", "wo"}

KEYSTORE_VERSION == "1.0"

\* bytes that are no JSON object, and the empty file File::create leaves behind
Garbage == [kind |-> "other", obj |-> [junk |-> TRUE]]
EmptyContent == [kind |-> "other", obj |-> [empty |-> TRUE]]

\* serde_json::to_string(&KeyStore): an object with the struct's two fields
JsonToString(keystore) == [kind |-> "json", obj |-> keystore]

\* serde_json::from_slice::<KeyStore>: needs a JSON object holding both fields
\* (unknown fields are ignored)
JsonFromSlice(content) ==
    IF content.kind = "json" /\ {"version", "secret_key"} \subseteq DOMAIN content.obj
    THEN Ok([version |-> content.obj.version, secret_key |-> content.obj.secret_key])
    ELSE Err("syntax or missing field")

NoFile == [exists |-> FALSE, mode |-> "rw", content |-> EmptyContent]
File(c, m) == [exists |-> TRUE, mode |-> m, content |-> c]

\* std::fs::File::open succeeds on a file that exists and may be read
CanOpen(f) == f.exists /\ f.mode # "wo"

\* put_to_file: File::create truncates an existing file, then write_all
put_to_file(content, f, io) ==
    IF (f.exists /\ f.mode = "ro") \/ io = "create_fails"
    THEN [res |-> Err("File creation failed"), file |-> f]
    ELSE LET created == File(EmptyContent, IF f.exists THEN f.mode ELSE "rw")
         IN IF io = "write_fails"
            THEN [res |-> Err("Write failed"), file |-> created]
            ELSE [res |-> Ok(<<>>), file |-> [created EXCEPT !.content = content]]

\* get_from_file: File::open, then read_to_end
get_from_file(f, io) ==
    IF ~CanOpen(f) THEN Err("Open file failed")
    ELSE IF io = "read_fails" THEN Err("Read file failed")
    ELSE Ok(f.content)

\* base::put_key
put_key(secret_key, password, f, io) ==
    LET enc == aes_enc(secret_key, password)
    IN IF ~enc.ok THEN [res |-> Err(enc.err), file |-> f]
       ELSE LET cipher == Prefix0x \o HexEncode(enc.val)
                keystore == [version |-> KEYSTORE_VERSION, secret_key |-> cipher]
            IN put_to_file(JsonToString(keystore), f, io)

\* base::get_key
get_key(password, f, io) ==
    LET content == get_from_file(f, io)
        keystore == JsonFromSlice(content.val)
        cipher == HexDecode(TrimStartMatches(keystore.val.secret_key, Prefix0x))
    IN IF ~content.ok THEN Err(content.err)
       ELSE IF ~keystore.ok THEN Err("Keystore decode failed")
       ELSE IF keystore.val.version # KEYSTORE_VERSION THEN Err("Invalid keystore version")
       ELSE IF ~cipher.ok THEN Err("Keystore decode failed")
       ELSE aes_dec(cipher.val, password)

\* yee_signer KeyPair::from_secret_key: the key must have SECRET_KEY_LEN bytes
KeyPairFromSecretKey(secret_key) ==
    IF Len(secret_key) = SECRET_KEY_LEN THEN Ok(secret_key) ELSE Err("invalid secret key")

\* base::output: the JSON document {"result": t}
Output(t) == Ok([result |-> t])

\* key.rs put_key, the `key put_key` command
key_put_key(secretText, password, f, io) ==
    LET secret_key == FromStr(secretText)
    IN IF CanOpen(f) THEN [res |-> Err("Keystore file exists"), file |-> f]
       ELSE IF ~secret_key.ok THEN [res |-> Err("Invalid secret key"), file |-> f]
       ELSE IF ~KeyPairFromSecretKey(secret_key.val).ok
       THEN [res |-> Err("Invalid secret key"), file |-> f]
       ELSE LET put == put_key(secret_key.val, password, f, io)
            IN IF ~put.res.ok THEN put ELSE [res |-> Output("Ok"), file |-> put.file]

\* key.rs get_key, the `key get_key` command
key_get_key(password, f, io) ==
    LET secret_key == get_key(password, f, io)
    IN IF ~secret_key.ok THEN secret_key ELSE Output(HexToString(secret_key.val))

\* ------------------------------------------------------------------------
\* JSON-RPC client and nonce lookup (base.rs rpc_call, tx.rs get_nonce)
\* ------------------------------------------------------------------------
Some(v) == [some |-> TRUE, v |-> v]
None == [some |-> FALSE, v |-> <<>>]

NoRpcError == [some |-> FALSE, code |-> 0, message |-> ""]
RpcErrorOf(code, message) == [some |-> TRUE, code |-> code, message |-> message]

\* what comes back for one request: the transport fails, the body is no
\* RpcResponse<R>, or it is the envelope {jsonrpc, result, error, id}
RequestFailed == [kind |-> "request_failed", result |-> None, error |-> NoRpcError]
ResponseFailed == [kind |-> "response_failed", result |-> None, error |-> NoRpcError]
Envelope(res, error) == [kind |-> "envelope", result |-> res, error |-> error]

\* the call as meter::get_block_info is taken to make it: an envelope
\* carrying an error is an Err, its result is not used
rpc_call_checked(reply) ==
    IF reply.kind = "request_failed" THEN Err("Request failed")
    ELSE IF reply.kind = "response_failed" THEN Err("Response failed")
    ELSE IF reply.error.some THEN Err("Rpc error")
    ELSE Ok(reply)

\* base::rpc_call: Err on a transport or body failure, otherwise the envelope
\* as received, its error field not looked at
rpc_call(reply) ==
    IF reply.kind = "request_failed" THEN Err("Request failed")
    ELSE IF reply.kind = "response_failed" THEN Err("Response failed")
    ELSE Ok(reply)

\* BigUint keeps no high-order zero digits; a number is its little-endian
\* base-256 digits, zero the empty sequence
RECURSIVE Normalize(_)
Normalize(b) ==
    IF Len(b) > 0 /\ b[Len(b)] = 0 THEN Normalize(SubSeq(b, 1, Len(b) - 1)) ELSE b

\* BigUint::from_bytes_le
FromBytesLe(bytes) == Normalize(bytes)

BigZero == <<>>
U64_BYTES == 8

\* a plausible slip: the number is cut to its low 64 bits (`as u64`)
ToU64Truncating(big) ==
    IF Len(big) <= U64_BYTES THEN Some(big) ELSE Some(Normalize(SubSeq(big, 1, U64_BYTES)))

\* ToPrimitive::to_u64: None when the number needs more than 64 bits
ToU64(big) == IF Len(big) <= U64_BYTES THEN Some(big) ELSE None

\* a plausible slip: a missing value is taken for nonce 1
NonceOfResultOffByOne(res) ==
    LET nonce == IF res.some THEN FromBytesLe(res.v) ELSE <<1>>
        small == ToU64(nonce)
    IN IF small.some THEN small.v ELSE BigZero

\* get_nonce, lines 271-275: the nonce of the `result` field
NonceOfResult(res) ==
    LET nonce == IF res.some THEN FromBytesLe(res.v) ELSE BigZero
        small == ToU64(nonce)
    IN IF small.some THEN small.v ELSE BigZero

\* tx.rs get_nonce
get_nonce(reply) ==
    LET response == rpc_call(reply)
    IN IF ~response.ok THEN Err(response.err) ELSE Ok(NonceOfResult(response.val.result))

\* u64 as little-endian digits, as NonceOfResult gives it
RECURSIVE ToLe(_)
ToLe(n) == IF n = 0 THEN <<>> ELSE <<n % 256>> \o ToLe(n \div 256)

Digits == <<"0", "1", "2", "3", "4", "5", "6", "7", "8", "9">>
IsDigit(c) == \E i \in 1..10 : Digits[i] = c
DigitVal(c) == (CHOOSE i \in 1..10 : Digits[i] = c) - 1

RECURSIVE DecimalValue(_)
DecimalValue(s) ==
    IF Len(s) = 0 THEN 0
    ELSE 10 * DecimalValue(SubSeq(s, 1, Len(s) - 1)) + DigitVal(s[Len(s)])

\* str::parse::<u64> on the short texts of the model (none overflows)
ParseU64(s) ==
    IF Len(s) = 0 \/ \E i \in 1..Len(s) : ~IsDigit(s[i]) THEN Err("invalid digit")
    ELSE Ok(DecimalValue(s))

\* ------------------------------------------------------------------------
\* Hex codec as a state machine: one input, one operation at a time
\* ------------------------------------------------------------------------
HexAlphabet == {"0", "x", "X", "1", "a", "F", "g"}
HexTexts == SeqsUpTo(HexAlphabet, MaxStrLen)
HexByteSet == {0, 1, 10, 16, 171, 255}
HexByteSeqs == SeqsUpTo(HexByteSet, MaxBytesLen)

NoHexRes == [op |-> "none", src |-> "none", text |-> <<>>, res |-> Err("")]
IdleKeystream == [p \in Passwords |-> [i \in 1..MaxSecretLen |-> 90]]
NoSave == [valid |-> FALSE, fresh |-> FALSE, secret |-> <<>>, password |-> ""]
NoRet == [op |-> "none", path |-> "", password |-> "", before |-> NoFile, res |-> Err("")]

HexIdle == hexIn = <<>> /\ hexBytes = <<>> /\ hexRes = NoHexRes
KsIdle ==
    /\ files = [p \in Paths |-> NoFile]
    /\ saved = [p \in Paths |-> NoSave]
    /\ ret = NoRet

NoResult == [kind |-> "none", err |-> "", out |-> <<>>]
NoLoc ==
    [period |-> 0, password |-> "", best_number |-> 0, best_hash_text |-> <<>>,
     shard_info |-> [some |-> FALSE, num |-> 0, count |-> 0], best_hash |-> <<>>,
     secret_key |-> <<>>, public_key |-> <<>>, nonce |-> <<>>, nonce_reply |-> RequestFailed,
     call |-> ""]
NoArgs == [period |-> None, nonce |-> None, call |-> "", keystore_path |-> ""]

NonceIdle == rpcReply = RequestFailed /\ nonceRes = NoResult
ComposeIdle ==
    /\ args = NoArgs
    /\ pc = "idle"
    /\ loc = NoLoc
    /\ trace = <<>>
    /\ inflight = {}
    /\ result = NoResult

HexInit ==
    /\ keystream = IdleKeystream
    /\ KsIdle
    /\ NonceIdle
    /\ ComposeIdle
    /\ hexRes = NoHexRes
    /\ \/ hexIn \in HexTexts /\ hexBytes = <<>>
       \/ hexIn = <<>> /\ hexBytes \in HexByteSeqs

\* let s: String = Hex::from(bytes).into()
HexIntoString ==
    /\ hexRes.op = "none"
    /\ hexIn = <<>>
    /\ hexIn' = HexToString(hexBytes)
    /\ hexRes' = [op |-> "into_string", src |-> "encoded", text |-> HexToString(hexBytes),
                  res |-> Err("")]
    /\ UNCHANGED <<keystream, hexBytes, ksVars, nonceVars, composeVars>>

\* s.parse::<Hex>()
HexFromStr ==
    /\ hexRes.op # "from_str"
    /\ hexRes' = [op |-> "from_str",
                  src |-> IF hexRes.op = "into_string" THEN "encoded" ELSE "input",
                  text |-> hexIn, res |-> FromStr(hexIn)]
    /\ UNCHANGED <<keystream, hexIn, hexBytes, ksVars, nonceVars, composeVars>>

HexNext == HexIntoString \/ HexFromStr

SpecHex == HexInit /\ [][HexNext]_vars

\* ------------------------------------------------------------------------
\* Key custody as a state machine: the keystore commands on a file system
\* ------------------------------------------------------------------------
Text(s) == [i \in 1..Len(s) |-> s[i]]
ForeignContents ==
    { Garbage,
      JsonToString([version |-> KEYSTORE_VERSION]),
      JsonToString([version |-> "2.0", secret_key |-> <<"0", "x", "5", "a">>]),
      JsonToString([version |-> KEYSTORE_VERSION, secret_key |-> <<"0", "x", "z", "z">>]),
      JsonToString([version |-> KEYSTORE_VERSION, secret_key |-> <<"0", "x", "0", "x", "5", "a">>]),
      JsonToString([version |-> KEYSTORE_VERSION, secret_key |-> <<"5", "A">>]) }
InitialFiles ==
    {NoFile} \cup {File(c, "rw") : c \in ForeignContents}
             \cup {File(Garbage, m) : m \in Modes}

\* the keystreams tried: the one of "p" is fixed, the one of "q" is any
KeyStreams ==
    {k \in [Passwords -> [1..MaxSecretLen -> KsBytes]] : k["p"] = IdleKeystream["p"]}

SecretTexts == {HexToString(s) : s \in Secrets} \cup {<<"0", "x", "g", "g">>}
PutIo == {"ok", "create_fails", "write_fails"}
GetIo == {"ok", "read_fails"}

Init ==
    /\ keystream \in KeyStreams
    /\ HexIdle
    /\ files \in [Paths -> InitialFiles]
    /\ saved = [p \in Paths |-> NoSave]
    /\ ret = NoRet
    /\ NonceIdle
    /\ ComposeIdle

\* what a save leaves in `saved`: the secret and password of a completed save,
\* nothing once the file's bytes are no longer those of that save
SavedAfter(path, r, secret, password) ==
    IF r.res.ok
    THEN [valid |-> TRUE, fresh |-> ~files[path].exists, secret |-> secret,
          password |-> password]
    ELSE IF r.file = files[path] THEN saved[path] ELSE NoSave

\* base::put_key called by any caller
BasePutKey(path, secret, password, io) ==
    \E r \in {put_key(secret, password, files[path], io)} :
       /\ files' = [files EXCEPT ![path] = r.file]
       /\ saved' = [saved EXCEPT ![path] = SavedAfter(path, r, secret, password)]
       /\ ret' = [op |-> "base_put_key", path |-> path, password |-> password,
                  before |-> files[path], res |-> r.res]
       /\ UNCHANGED <<keystream, hexVars, nonceVars, composeVars>>

\* the `key put_key` command
KeyPutKey(path, secretText, password, io) ==
    \E r \in {key_put_key(secretText, password, files[path], io)} :
       /\ files' = [files EXCEPT ![path] = r.file]
       /\ saved' = [saved EXCEPT
                      ![path] = SavedAfter(path, r, FromStr(secretText).val, password)]
       /\ ret' = [op |-> "key_put_key", path |-> path, password |-> password,
                  before |-> files[path], res |-> r.res]
       /\ UNCHANGED <<keystream, hexVars, nonceVars, composeVars>>

\* base::get_key called by any caller
BaseGetKey(path, password, io) ==
    /\ ret' = [op |-> "base_get_key", path |-> path, password |-> password,
               before |-> files[path], res |-> get_key(password, files[path], io)]
    /\ UNCHANGED <<keystream, hexVars, files, saved, nonceVars, composeVars>>

\* the `key get_key` command
KeyGetKey(path, password, io) ==
    /\ ret' = [op |-> "key_get_key", path |-> path, password |-> password,
               before |-> files[path], res |-> key_get_key(password, files[path], io)]
    /\ UNCHANGED <<keystream, hexVars, files, saved, nonceVars, composeVars>>

Next ==
    \E path \in Paths, password \in Passwords :
        \/ \E secret \in Secrets, io \in PutIo : BasePutKey(path, secret, password, io)
        \/ \E secretText \in SecretTexts, io \in PutIo :
               KeyPutKey(path, secretText, password, io)
        \/ \E io \in GetIo : BaseGetKey(path, password, io)
        \/ \E io \in GetIo : KeyGetKey(path, password, io)

Spec == Init /\ [][Next]_vars

\* ------------------------------------------------------------------------
\* get_nonce on its own: one reply of the node, one call
\* ------------------------------------------------------------------------
MaxDataLen == 3
DataBytes == {0, 1, 2, 255}

\* stored values of up to MaxDataLen bytes, and values one byte wider than a u64
StorageDatas ==
    SeqsUpTo(DataBytes, MaxDataLen)
        \cup {[i \in 1..(U64_BYTES + 1) |-> IF i = U64_BYTES + 1 THEN hi ELSE lo] :
                 lo \in DataBytes, hi \in DataBytes}
        \cup {[i \in 1..U64_BYTES |-> b] : b \in DataBytes}

NonceReplies ==
    {RequestFailed, ResponseFailed}
        \cup {Envelope(None, e) : e \in {NoRpcError, RpcErrorOf(1, "unknown key")}}
        \cup {Envelope(Some(d), NoRpcError) : d \in StorageDatas}

NonceInit ==
    /\ keystream = IdleKeystream
    /\ HexIdle
    /\ KsIdle
    /\ ComposeIdle
    /\ rpcReply \in NonceReplies
    /\ nonceRes = NoResult

\* get_nonce(public_key, rpc) with the node answering rpcReply
GetNonce ==
    /\ nonceRes.kind = "none"
    /\ \E r \in {get_nonce(rpcReply)} :
          nonceRes' = IF r.ok THEN [kind |-> "ok", err |-> "", out |-> r.val]
                      ELSE [kind |-> "err", err |-> r.err, out |-> <<>>]
    /\ UNCHANGED <<keystream, hexVars, ksVars, rpcReply, composeVars>>

NonceNext == GetNonce

SpecNonce == NonceInit /\ [][NonceNext]_vars

\* ------------------------------------------------------------------------
\* Transaction composer (tx.rs compose), one action per step
\* ------------------------------------------------------------------------
\* yee_signer::tx::types::HASH_LEN is 32; the model scales the hash to two bytes
HASH_LEN == 2
DEFAULT_PERIOD == 64

\* KeyPair::public_key: a one-way image of the secret key, kept symbolic
PublicKeyOf(secret_key) == [public_of |-> secret_key]

\* the bits of the public key the sharding function looks at
PublicKeyLowBits(public_key) ==
    (public_key.public_of[1] + 3 * public_key.public_of[SECRET_KEY_LEN]) % 256

IsPowerOfTwo(n) == n \in {1, 2, 4, 8, 16, 32, 64, 128, 256}

\* yee_sharding_primitives::utils::shard_num_for_bytes: None unless the shard
\* count is a power of two, else the low bits of the key
shard_num_for_bytes(public_key, shard_count) ==
    IF IsPowerOfTwo(shard_count) THEN Some(PublicKeyLowBits(public_key) % shard_count)
    ELSE None

\* a plausible slip: the comparison of line 191 is left out
ShardCheckSkipped(shard_num_for_public_key, shard_num) == Ok(<<>>)

\* compose, lines 191-193
ShardCheck(shard_num_for_public_key, shard_num) ==
    IF shard_num_for_public_key # shard_num
    THEN Err("the shard number of the secret key and the node not match")
    ELSE Ok(<<>>)

\* yee_signer::tx::build_call: the call of a well-formed JSON text
build_call(call) == IF call = "transfer" THEN Ok([module |-> 4, method |-> 0]) ELSE Err("InvalidCall")

\* yee_signer::tx::build_tx: the transaction signed with the secret key; the
\* signature is named by the public key that verifies it
build_tx(secret_key, nonce, period, current, current_hash, call) ==
    [signer |-> PublicKeyOf(secret_key), nonce |-> nonce, era |-> <<period, current>>,
     hash |-> current_hash, call |-> call]

\* AddressCodec::to_address
ToAddress(public_key, hrp) == [hrp |-> hrp, address_of |-> public_key]

PeriodArgs == {None, Some(<<"3", "2">>), Some(<<"x">>)}
NonceArgs == {None, Some(<<"7">>), Some(<<"-", "1">>)}
CallArgs == {"transfer", "malformed"}
ComposeArgs ==
    [period : PeriodArgs, nonce : NonceArgs, call : CallArgs, keystore_path : Paths]

ComposeSecrets == {<<0, 0>>, <<0, 85>>, <<85>>}
\* the keystore files compose may find: none, one that is no container, and
\* the ones `key put_key` or base::put_key wrote under password "p"
ComposeFiles ==
    {NoFile, File(Garbage, "rw")}
        \cup {put_key(secret, "p", NoFile, "ok").file : secret \in ComposeSecrets}

ComposeInit ==
    /\ keystream \in KeyStreams
    /\ HexIdle
    /\ files \in [Paths -> ComposeFiles]
    /\ saved = [p \in Paths |-> NoSave]
    /\ ret = NoRet
    /\ NonceIdle
    /\ args \in ComposeArgs
    /\ pc = "args"
    /\ loc = NoLoc
    /\ trace = <<>>
    /\ inflight = {}
    /\ result = NoResult

Ev(step, ok) == [step |-> step, ok |-> ok]

\* the step succeeded: bind its locals and go on to the next step
Advance(step, next, newLoc) ==
    /\ pc' = next
    /\ loc' = newLoc
    /\ trace' = Append(trace, Ev(step, TRUE))
    /\ result' = result

\* the step returned Err through `?` or `return Err`: compose returns it
Fail(step, err) ==
    /\ pc' = "done"
    /\ loc' = loc
    /\ trace' = Append(trace, Ev(step, FALSE))
    /\ result' = [kind |-> "err", err |-> err, out |-> <<>>]

\* the step panicked (unwrap, expect, copy_from_slice): the process aborts
Panic(step, what) ==
    /\ pc' = "done"
    /\ loc' = loc
    /\ trace' = Append(trace, Ev(step, FALSE))
    /\ result' = [kind |-> "panic", err |-> what, out |-> <<>>]

composeEnv == <<keystream, hexVars, ksVars, nonceVars, args>>


\* lines 164-169: PERIOD is parsed, 64 when absent
ParseArgs ==
    /\ pc = "args"
    /\ LET period == IF args.period.some THEN ParseU64(args.period.v) ELSE Ok(DEFAULT_PERIOD)
       IN IF period.ok THEN Advance("args", "prompt", [loc EXCEPT !.period = period.val])
          ELSE Fail("args", "Invalid period")
    /\ UNCHANGED <<composeEnv, inflight>>

\* line 171: read_password_from_tty(..).unwrap()
PromptPassword ==
    /\ pc = "prompt"
    /\ \/ \E password \in Passwords :
             Advance("prompt", "block_info", [loc EXCEPT !.password = password])
       \/ Panic("prompt", "unwrap on a failed prompt")
    /\ UNCHANGED <<composeEnv, inflight>>

\* meter::get_block_info: the best-block request goes out
BlockInfoSend ==
    /\ pc = "block_info"
    /\ inflight' = inflight \cup {"block_info"}
    /\ pc' = "block_info_wait"
    /\ trace' = Append(trace, Ev("send:block_info", TRUE))
    /\ UNCHANGED <<composeEnv, loc, result>>

BestHashTexts ==
    { <<"0", "x", "0", "0", "d", "0">>, <<"0", "x", "z", "z">>, <<"0", "x", "d", "0">> }
NoShardInfo == [some |-> FALSE, num |-> 0, count |-> 0]
ShardInfos == {[some |-> TRUE, num |-> n, count |-> c] : n \in {0, 1}, c \in {3, 4}}
BlockInfoReplies ==
    {RequestFailed, Envelope(None, RpcErrorOf(1, "unknown block"))}
        \cup {Envelope(Some([number |-> 45, hash |-> h, shard |-> i]), NoRpcError) :
                 h \in BestHashTexts, i \in ShardInfos \cup {NoShardInfo}}
ShardInfoReplies ==
    {RequestFailed, Envelope(None, RpcErrorOf(1, "unknown key")), Envelope(None, NoRpcError)}
        \cup {Envelope(Some(i), NoRpcError) : i \in ShardInfos}

\* meter::get_block_info: the best-block answer; a failure ends compose
\* through the `?` of line 173, a block without shard info asks the storage
BlockInfoRecv ==
    /\ pc = "block_info_wait"
    /\ inflight' = inflight \ {"block_info"}
    /\ \E reply \in BlockInfoReplies :
          LET r == rpc_call_checked(reply)
          IN IF ~r.ok THEN Fail("block_info", r.err)
             ELSE Advance("block_info",
                          IF r.val.result.v.shard.some THEN "best_hash" ELSE "shard_info",
                          [loc EXCEPT !.best_number = r.val.result.v.number,
                                      !.best_hash_text = r.val.result.v.hash,
                                      !.shard_info = r.val.result.v.shard])
    /\ UNCHANGED composeEnv

\* meter::get_block_info: the ShardInfo storage request goes out
ShardInfoSend ==
    /\ pc = "shard_info"
    /\ inflight' = inflight \cup {"shard_info"}
    /\ pc' = "shard_info_wait"
    /\ trace' = Append(trace, Ev("send:shard_info", TRUE))
    /\ UNCHANGED <<composeEnv, loc, result>>

\* meter::get_block_info: the ShardInfo answer
ShardInfoRecv ==
    /\ pc = "shard_info_wait"
    /\ inflight' = inflight \ {"shard_info"}
    /\ \E reply \in ShardInfoReplies :
          LET r == rpc_call_checked(reply)
          IN IF ~r.ok THEN Fail("shard_info", r.err)
             ELSE Advance("shard_info", "best_hash",
                          [loc EXCEPT !.shard_info =
                              IF r.val.result.some THEN r.val.result.v ELSE NoShardInfo])
    /\ UNCHANGED composeEnv

\* lines 175-178: the best hash is hex-decoded
DecodeBestHash ==
    /\ pc = "best_hash"
    /\ LET h == HexDecode(TrimStartMatches(loc.best_hash_text, Prefix0x))
       IN IF h.ok THEN Advance("best_hash", "shard_some", [loc EXCEPT !.best_hash = h.val])
          ELSE Fail("best_hash", "Invalid best hash")
    /\ UNCHANGED <<composeEnv, inflight>>

\* line 180: shard_info.ok_or("Invalid shard info")
RequireShardInfo ==
    /\ pc = "shard_some"
    /\ IF loc.shard_info.some THEN Advance("shard_some", "get_key", loc)
       ELSE Fail("shard_some", "Invalid shard info")
    /\ UNCHANGED <<composeEnv, inflight>>

\* line 182: base::get_key(&password, keystore_path)?
LoadKey ==
    /\ pc = "get_key"
    /\ \E io \in GetIo :
          LET k == get_key(loc.password, files[args.keystore_path], io)
          IN IF k.ok THEN Advance("get_key", "key_pair", [loc EXCEPT !.secret_key = k.val])
             ELSE Fail("get_key", k.err)
    /\ UNCHANGED <<composeEnv, inflight>>

\* lines 184-186: KeyPair::from_secret_key(&secret_key)?, public_key()
MakeKeyPair ==
    /\ pc = "key_pair"
    /\ LET k == KeyPairFromSecretKey(loc.secret_key)
       IN IF k.ok
          THEN Advance("key_pair", "shard_check",
                       [loc EXCEPT !.public_key = PublicKeyOf(loc.secret_key)])
          ELSE Fail("key_pair", k.err)
    /\ UNCHANGED <<composeEnv, inflight>>

\* lines 188-193: shard_num_for_bytes(..).expect("qed"), then the comparison
CheckShard ==
    /\ pc = "shard_check"
    /\ LET n == shard_num_for_bytes(loc.public_key, loc.shard_info.count)
       IN IF ~n.some THEN Panic("shard_check", "expect on None")
          ELSE LET c == ShardCheck(n.v, loc.shard_info.num)
               IN IF c.ok THEN Advance("shard_check", "nonce", loc)
                  ELSE Fail("shard_check", c.err)
    /\ UNCHANGED <<composeEnv, inflight>>

\* line 196: the NONCE argument is given and parsed
NonceFromArgs ==
    /\ pc = "nonce"
    /\ args.nonce.some
    /\ LET n == ParseU64(args.nonce.v)
       IN IF n.ok THEN Advance("nonce", "build_call", [loc EXCEPT !.nonce = ToLe(n.val)])
          ELSE Fail("nonce", "Invalid nonce")
    /\ UNCHANGED <<composeEnv, inflight>>

\* a plausible slip: get_nonce is called before the NONCE argument is looked
\* at (unwrap_or(get_nonce(..)?) evaluates its argument eagerly)
NonceSendAlways ==
    /\ pc = "nonce"
    /\ inflight' = inflight \cup {"nonce"}
    /\ pc' = "nonce_wait"
    /\ trace' = Append(trace, Ev("send:nonce", TRUE))
    /\ UNCHANGED <<composeEnv, loc, result>>

\* line 197, get_nonce lines 261-265: the state_getStorage request goes out
NonceSend ==
    /\ pc = "nonce"
    /\ ~args.nonce.some
    /\ inflight' = inflight \cup {"nonce"}
    /\ pc' = "nonce_wait"
    /\ trace' = Append(trace, Ev("send:nonce", TRUE))
    /\ UNCHANGED <<composeEnv, loc, result>>

ComposeNonceReplies ==
    { RequestFailed,
      Envelope(None, NoRpcError),
      Envelope(None, RpcErrorOf(1, "unknown key")),
      Envelope(Some(<<2>>), NoRpcError),
      Envelope(Some(<<0, 0, 0, 0, 0, 0, 0, 0, 1>>), NoRpcError) }

\* get_nonce lines 267-277: the answer is turned into the nonce
NonceRecv ==
    /\ pc = "nonce_wait"
    /\ inflight' = inflight \ {"nonce"}
    /\ \E reply \in ComposeNonceReplies :
          LET n == get_nonce(reply)
          IN IF n.ok
             THEN Advance("nonce", "build_call",
                          [loc EXCEPT !.nonce = n.val, !.nonce_reply = reply])
             ELSE /\ pc' = "done"
                  /\ loc' = [loc EXCEPT !.nonce_reply = reply]
                  /\ trace' = Append(trace, Ev("nonce", FALSE))
                  /\ result' = [kind |-> "err", err |-> n.err, out |-> <<>>]
    /\ UNCHANGED composeEnv

\* line 200: build_call(call.as_bytes())?
BuildCall ==
    /\ pc = "build_call"
    /\ LET c == build_call(args.call)
       IN IF c.ok THEN Advance("build_call", "build_tx", [loc EXCEPT !.call = args.call])
          ELSE Fail("build_call", c.err)
    /\ UNCHANGED <<composeEnv, inflight>>

SignerOutcomes == {"ok", "fails"}
AddressOutcomes == {"ok", "fails"}

\* lines 202-216: the fixed-size copies (copy_from_slice panics on a length
\* mismatch), build_tx(..)?, encode
BuildTx ==
    /\ pc = "build_tx"
    /\ IF Len(loc.secret_key) # SECRET_KEY_LEN \/ Len(loc.best_hash) # HASH_LEN
       THEN Panic("build_tx", "copy_from_slice length mismatch")
       ELSE \E signer \in SignerOutcomes :
               IF signer = "ok" THEN Advance("build_tx", "output", loc)
               ELSE Fail("build_tx", "build_tx failed")
    /\ UNCHANGED <<composeEnv, inflight>>

\* lines 231-249: the Result struct and base::output
Emit ==
    /\ pc = "output"
    /\ \E address \in AddressOutcomes :
          IF address = "fails" THEN Fail("output", "Address encode failed")
          ELSE /\ pc' = "done"
               /\ loc' = loc
               /\ trace' = Append(trace, Ev("output", TRUE))
               /\ result' =
                    [kind |-> "ok", err |-> "",
                     out |-> [shard_num |-> loc.shard_info.num,
                              shard_count |-> loc.shard_info.count,
                              sender_address |-> ToAddress(loc.public_key, "MAINNET"),
                              sender_testnet_address |-> ToAddress(loc.public_key, "TESTNET"),
                              nonce |-> loc.nonce,
                              period |-> loc.period,
                              current |-> loc.best_number,
                              current_hash |-> HexToString(loc.best_hash),
                              raw |-> build_tx(loc.secret_key, loc.nonce, loc.period,
                                               loc.best_number, loc.best_hash, loc.call)]]
    /\ UNCHANGED <<composeEnv, inflight>>

ComposeNext ==
    \/ ParseArgs
    \/ PromptPassword
    \/ BlockInfoSend
    \/ BlockInfoRecv
    \/ ShardInfoSend
    \/ ShardInfoRecv
    \/ DecodeBestHash
    \/ RequireShardInfo
    \/ LoadKey
    \/ MakeKeyPair
    \/ CheckShard
    \/ NonceFromArgs
    \/ NonceSend
    \/ NonceRecv
    \/ BuildCall
    \/ BuildTx
    \/ Emit

SpecCompose == ComposeInit /\ [][ComposeNext]_vars

\* ------------------------------------------------------------------------
\* Properties of the hex codec (checked under SpecHex)
\* ------------------------------------------------------------------------
HexDigitChars ==
    {"0", "1", "2", "3", "4", "5", "6", "7", "8", "9",
     "a", "b", "c", "d", "e", "f", "A", "B", "C", "D", "E", "F"}
LowerHexChars ==
    {"0", "1", "2", "3", "4", "5", "6", "7", "8", "9", "a", "b", "c", "d", "e", "f"}

\* the text left once a single leading "0x" or "0X" is removed
StripOnePrefix(s) ==
    IF Len(s) >= 2 /\ s[1] = "0" /\ s[2] \in {"x", "X"} THEN SubSeq(s, 3, Len(s)) ELSE s

\* the texts the documented decode accepts
DecodeAccepts(s) ==
    LET rest == StripOnePrefix(s)
    IN Len(rest) % 2 = 0 /\ \A i \in 1..Len(rest) : rest[i] \in HexDigitChars

\* C8: Hex decode strips one optional leading 0x or 0X and then succeeds if
\* and only if the rest is hex digits of either case and of even length;
\* every other input fails with the invalid-encoding error.
C8_DecodeStripsOnePrefix ==
    hexRes.op = "from_str" =>
        /\ hexRes.res.ok <=> DecodeAccepts(hexRes.text)
        /\ ~hexRes.res.ok => hexRes.res.err = "Invalid hex"

\* C9: encode(b) is 0x followed by exactly two lowercase hex digits per byte,
\* and decoding that text gives b back.
C9_HexRoundTrip ==
    (hexRes.op = "from_str" /\ hexRes.src = "encoded") =>
        /\ Len(hexRes.text) = 2 + 2 * Len(hexBytes)
        /\ SubSeq(hexRes.text, 1, 2) = <<"0", "x">>
        /\ \A i \in 1..Len(hexBytes) :
              /\ hexRes.text[2 * i + 1] \in LowerHexChars
              /\ hexRes.text[2 * i + 2] \in LowerHexChars
              /\ 16 * HexVal(hexRes.text[2 * i + 1]) + HexVal(hexRes.text[2 * i + 2])
                     = hexBytes[i]
        /\ hexRes.res = Ok(hexBytes)

\* C9 happens: bytes with a zero high nibble and a letter digit were encoded and decoded
C9_Witness ==
    /\ hexRes.op = "from_str"
    /\ hexRes.src = "encoded"
    /\ Len(hexBytes) >= 2
    /\ hexBytes[1] = 10
    /\ hexBytes[2] = 171
    /\ hexRes.res.ok

\* ------------------------------------------------------------------------
\* Properties of the keystore (checked under Spec)
\* ------------------------------------------------------------------------
IsPutKey == ret.op \in {"base_put_key", "key_put_key"}
IsLoad == ret.op = "base_get_key" /\ ret.res.err # "Read file failed"

\* C1: a save onto a path where a file already exists always fails with the
\* file-exists error and leaves the bytes of the existing file unchanged.
C1_SaveNeverOverwrites ==
    (IsPutKey /\ ret.before.exists) =>
        /\ ret.res = Err("Keystore file exists")
        /\ files[ret.path] = ret.before

\* C4: a secret saved under a password to a fresh path and then loaded from
\* that path with the same password comes back exactly (the empty secret too).
C4_KeystoreRoundTrip ==
    \A path \in Paths :
        (/\ IsLoad
         /\ ret.path = path
         /\ saved[path].valid
         /\ saved[path].fresh
         /\ ret.password = saved[path].password)
        => ret.res = Ok(saved[path].secret)

\* C4 happens: a non-empty secret saved to a fresh path was loaded back
C4_Witness ==
    \E path \in Paths :
        /\ IsLoad
        /\ ret.path = path
        /\ saved[path].valid
        /\ saved[path].fresh
        /\ ret.password = saved[path].password
        /\ ret.password = "q"
        /\ Len(saved[path].secret) = MaxSecretLen
        /\ ret.res.ok

ParseError == "Keystore decode failed"
VersionMismatch == "Invalid keystore version"

\* C7: load rejects every container whose version is not "1.0" with the
\* version error and returns no key bytes; and the failure kinds differ: a
\* malformed container gives the parse error, an unsupported version the
\* version error, a non-hex ciphertext an error that is neither of the two.
C7_LoadErrorKinds ==
    (IsLoad /\ CanOpen(files[ret.path])) =>
        LET keystore == JsonFromSlice(files[ret.path].content)
        IN /\ ~keystore.ok => ret.res = Err(ParseError)
           /\ (keystore.ok /\ keystore.val.version # "1.0")
                 => ret.res = Err(VersionMismatch)
           /\ (/\ keystore.ok
               /\ keystore.val.version = "1.0"
               /\ ~DecodeAccepts(keystore.val.secret_key))
                 => (~ret.res.ok /\ ret.res.err \notin {ParseError, VersionMismatch})

\* a load, from a file that could be read, with a password other than the one
\* the file was saved with
WrongPasswordLoad(path) ==
    /\ IsLoad
    /\ CanOpen(files[path])
    /\ ret.path = path
    /\ saved[path].valid
    /\ ret.password # saved[path].password

SameKeyStream(p1, p2, n) == \A i \in 1..n : KeyStream(p1)[i] = KeyStream(p2)[i]

\* C10 as stated: decrypting with another password never fails, gives bytes
\* of the ciphertext's length, and for a non-empty plaintext bytes that differ
\* from the plaintext.
C10_WrongPasswordDiffers ==
    \A path \in Paths :
        WrongPasswordLoad(path) =>
            /\ ret.res.ok
            /\ Len(ret.res.val) = Len(saved[path].secret)
            /\ Len(saved[path].secret) > 0 => ret.res.val # saved[path].secret

\* C10 amended: decrypting with another password never fails and gives bytes
\* of the ciphertext's length; they equal the plaintext exactly when the two
\* passwords' keystreams coincide over that length.
C10_WrongPasswordNeverFails ==
    \A path \in Paths :
        WrongPasswordLoad(path) =>
            /\ ret.res.ok
            /\ Len(ret.res.val) = Len(saved[path].secret)
            /\ ret.res.val = saved[path].secret
                 <=> SameKeyStream(ret.password, saved[path].password,
                                   Len(saved[path].secret))

\* C10 happens: a wrong-password load returned garbage of the secret's length
C10_Witness ==
    \E path \in Paths :
        /\ WrongPasswordLoad(path)
        /\ ret.res.ok
        /\ Len(ret.res.val) = MaxSecretLen
        /\ ret.res.val # saved[path].secret

\* the secret the file the command read decrypts to under the command's password
LoadedSecret == get_key(ret.password, ret.before, "ok")

\* the text is the hex form of the bytes (prefixed or not, of either case)
Shows(text, bytes) == FromStr(text) = Ok(bytes)

\* C12: the plaintext secret key is written nowhere but into the encrypted
\* container: the output of a save is the constant "Ok", the output of the
\* `get_key` command does not show the bytes of the decrypted (non-empty)
\* secret key, and no text of compose's output shows them.
C12_SecretNeverEmitted ==
    /\ (ret.op = "key_put_key" /\ ret.res.ok) => ret.res.val.result = "Ok"
    /\ (ret.op = "key_get_key" /\ ret.res.ok /\ Len(LoadedSecret.val) > 0)
          => ~Shows(ret.res.val.result, LoadedSecret.val)
    /\ result.kind = "ok" => ~Shows(result.out.current_hash, loc.secret_key)

\* ------------------------------------------------------------------------
\* Properties of get_nonce (checked under SpecNonce)
\* ------------------------------------------------------------------------
DigitAt(x, i) == IF i <= Len(x) THEN x[i] ELSE 0
LongerLen(a, b) == IF Len(a) < Len(b) THEN Len(b) ELSE Len(a)

\* two little-endian digit strings denote the same unsigned integer
SameNumber(a, b) == \A i \in 1..LongerLen(a, b) : DigitAt(a, i) = DigitAt(b, i)

\* the unsigned integer is below 2^64
Below2To64(b) == \A i \in 1..Len(b) : i > 8 => b[i] = 0

\* the node answered the storage query, without an error
Answered == nonceRes.kind # "none" /\ rpcReply.kind = "envelope" /\ ~rpcReply.error.some

\* C6 as stated: with no stored value the nonce is exactly 0 and no error;
\* with a stored value it is the little-endian unsigned integer the returned
\* bytes encode.
C6_NonceIsLeDecoding ==
    Answered =>
        /\ nonceRes.kind = "ok"
        /\ ~rpcReply.result.some => nonceRes.out = BigZero
        /\ rpcReply.result.some => SameNumber(nonceRes.out, rpcReply.result.v)

\* C6 amended: with no stored value the nonce is exactly 0 and no error; with
\* a stored value below 2^64 it is the little-endian unsigned integer the
\* returned bytes encode (a value of 2^64 or more gives nonce 0).
C6_NonceIsLeDecodingBelow2To64 ==
    Answered =>
        /\ nonceRes.kind = "ok"
        /\ ~rpcReply.result.some => nonceRes.out = BigZero
        /\ (rpcReply.result.some /\ Below2To64(rpcReply.result.v))
              => SameNumber(nonceRes.out, rpcReply.result.v)
        /\ (rpcReply.result.some /\ ~Below2To64(rpcReply.result.v))
              => nonceRes.out = BigZero

\* C6 happens: a stored two-byte value 0x01ff was resolved
C6_Witness ==
    /\ Answered
    /\ rpcReply.result.some
    /\ rpcReply.result.v = <<255, 1>>
    /\ nonceRes.kind = "ok"
    /\ nonceRes.out = <<255, 1>>

\* the node answered the storage query with a stored value
StoredValue == nonceRes.kind # "none" /\ rpcReply.kind = "envelope" /\ rpcReply.result.some

\* C15: nonce resolution never fails on the content of a stored value: a
\* value that, read as a little-endian unsigned integer, does not fit in 64
\* bits resolves to nonce 0, neither an error nor its low 64 bits; a value
\* below 2^64 resolves to itself, held in at most eight bytes.
C15_OversizedNonceIsZero ==
    StoredValue =>
        /\ nonceRes.kind = "ok"
        /\ Len(nonceRes.out) <= U64_BYTES
        /\ IF Below2To64(rpcReply.result.v)
           THEN SameNumber(nonceRes.out, rpcReply.result.v)
           ELSE nonceRes.out = BigZero

\* C15 happens: a nine-byte value with non-zero low bytes was resolved to 0
C15_Witness ==
    /\ StoredValue
    /\ Len(rpcReply.result.v) = U64_BYTES + 1
    /\ rpcReply.result.v[1] # 0
    /\ rpcReply.result.v[U64_BYTES + 1] # 0
    /\ nonceRes.kind = "ok"
    /\ nonceRes.out = BigZero

\* ------------------------------------------------------------------------
\* Properties of compose (checked under SpecCompose)
\* ------------------------------------------------------------------------
Ran(step) == \E i \in 1..Len(trace) : trace[i].step = step
Succeeded(step) == \E i \in 1..Len(trace) : trace[i] = Ev(step, TRUE)

ShardMismatchError == "the shard number of the secret key and the node not match"

\* the key's shard under the node's shard_count exists and is not the node's shard_num
ShardsDiffer ==
    /\ Succeeded("key_pair")
    /\ shard_num_for_bytes(loc.public_key, loc.shard_info.count).some
    /\ shard_num_for_bytes(loc.public_key, loc.shard_info.count).v # loc.shard_info.num

\* C2: when the shard derived from the key differs from the node's shard_num,
\* compose fails with the shard-mismatch error and gives no raw transaction:
\* no nonce request is sent and the signer is never called.
C2_ShardMismatchStops ==
    ShardsDiffer =>
        /\ ~Ran("send:nonce")
        /\ ~Ran("nonce")
        /\ ~Ran("build_tx")
        /\ result.kind # "ok"
        /\ pc = "done" => (result.kind = "err" /\ result.err = ShardMismatchError)

\* C2 happens: compose ended on a key of another shard than the node's
C2_Witness ==
    /\ pc = "done"
    /\ ShardsDiffer
    /\ Ran("shard_check")
    /\ result.err = ShardMismatchError

\* C3: when the node answers state_getStorage with an envelope carrying an
\* error, the nonce lookup fails: no nonce is resolved from that answer and
\* compose ends in an error.
C3_RpcErrorFailsNonce ==
    (Ran("nonce") /\ loc.nonce_reply.kind = "envelope" /\ loc.nonce_reply.error.some) =>
        /\ ~Succeeded("nonce")
        /\ pc = "done"
        /\ result.kind = "err"

\* C5: compose is fail-fast: nothing runs after a failed step, no step runs
\* twice, a run ends in the success payload only if every step succeeded, the
\* error reported is the one of the failed step, and a step that fails (an
\* RPC answered with an error included) ends the run without a payload.
C5_FailFast ==
    /\ \A i \in 1..Len(trace) : ~trace[i].ok => (i = Len(trace) /\ pc = "done")
    /\ \A i, j \in 1..Len(trace) : trace[i].step = trace[j].step => i = j
    /\ pc = "done" => (result.kind = "ok" <=> trace[Len(trace)] = Ev("output", TRUE))
    /\ result.kind # "ok" => result.out = <<>>
    /\ (Ran("nonce") /\ loc.nonce_reply.kind = "envelope" /\ loc.nonce_reply.error.some)
          => (pc = "done" /\ result.kind # "ok" /\ ~Ran("build_call") /\ ~Ran("build_tx"))

\* C11: every failure in compose is returned as an error value, never as an
\* abort: whatever the node answers and the keystore holds (a best hash of
\* another length than HASH_LEN, a shard_count the sharding function has no
\* shard number for, a decrypted key of the wrong length), once the password
\* is read compose does not panic.
C11_NoAbnormalAbort ==
    Succeeded("prompt") => result.kind # "panic"

\* the place of a step in the run, 0 when it has not run
StepIndex(step) ==
    IF Ran(step) THEN CHOOSE i \in 1..Len(trace) : trace[i].step = step ELSE 0

\* step a, when both have run, ran before step b
Precedes(a, b) == (Ran(a) /\ Ran(b)) => StepIndex(a) < StepIndex(b)

RpcSends == {"send:block_info", "send:shard_info", "send:nonce"}

\* C13: compose runs its steps in the specified order: the local arguments,
\* the call payload among them, are validated first, so that with an invalid
\* call payload no RPC request is sent, the keystore is not read and the run
\* ends in the argument error; the chain state is fetched before the secret
\* key is recovered; the shard check comes before the nonce is resolved; and
\* signing comes after every other step but the output.
C13_StepOrder ==
    /\ ~build_call(args.call).ok =>
          /\ \A send \in RpcSends : ~Ran(send)
          /\ ~Ran("get_key")
          /\ (pc = "done" /\ result.kind # "panic") =>
                (result.kind = "err" /\ result.err \in {"InvalidCall", "Invalid period"})
    /\ Ran("get_key") => Succeeded("block_info")
    /\ (Ran("nonce") \/ Ran("send:nonce")) => Succeeded("shard_check")
    /\ \A step \in {"args", "block_info", "get_key", "key_pair", "shard_check", "nonce",
                    "build_call"} :
          Ran("build_tx") => (Succeeded(step) /\ Precedes(step, "build_tx"))
    /\ Precedes("build_tx", "output")

\* how many times the request went out
SendCount(send) == Cardinality({i \in 1..Len(trace) : trace[i].step = send})

RpcSteps == {"block_info", "shard_info", "nonce"}

\* C14: within one composition RPC requests never overlap and are never
\* repeated: at most one request is in flight at any moment, each request
\* (block info, shard info, nonce) goes out at most once, an RPC step that
\* failed is the last thing the run did, with nothing left in flight, and
\* with an explicit nonce no nonce request is sent.
C14_RequestsNeverOverlap ==
    /\ Cardinality(inflight) <= 1
    /\ \A send \in RpcSends : SendCount(send) <= 1
    /\ \A i \in 1..Len(trace) :
          (trace[i].step \in RpcSteps /\ ~trace[i].ok)
             => (i = Len(trace) /\ pc = "done" /\ inflight = {})
    /\ args.nonce.some => ~Ran("send:nonce")

\* C14 happens: the three requests went out one after the other and the last
\* one, failing in transport, ended the run
C14_Witness ==
    /\ pc = "done"
    /\ \A send \in RpcSends : SendCount(send) = 1
    /\ trace[Len(trace)] = Ev("nonce", FALSE)
    /\ result.err = "Request failed"
    /\ inflight = {}

====
